---- MODULE Spec2Model ----
(***************************************************************************)
(* Model of backend/db_cli.py (DatabaseCLI: connect, disconnect,           *)
(* execute_query, run_interactive) and of                                  *)
(* backend/src/services/embeddings.py (EmbeddingService).                  *)
(*                                                                         *)
(* The asyncpg driver and the embedding provider are the environment:      *)
(* every call to them is recorded, and its outcome is chosen               *)
(* nondeterministically among the outcomes the call can have.              *)
(***************************************************************************)
EXTENDS Integers, Sequences, FiniteSets, TLC

VARIABLES
    db_url,      \* DatabaseCLI.db_url: "" (not set) or a connection string
    conn,        \* DatabaseCLI.conn: None, or the id of a handle
    live,        \* driver: the handles opened and not yet closed
    opened,      \* driver: number of handles opened so far (the last id)
    ncalls,      \* number of method calls made on the instance
    prev_op,     \* the method called before the last one
    last,        \* the last method call: what it returned, reported and asked of the driver
    pc,          \* run_interactive: control position
    nread,       \* run_interactive: number of input() calls made
    line,        \* run_interactive: the last line read (raw), or NoLine
    ndisconnect, \* number of disconnect calls made by run_interactive or by main
    escaped,     \* run_interactive: the exception that left the invocation, or "none"
    eof,         \* run_interactive: the input source is exhausted
    texts,            \* generate_embeddings_batch: the argument texts
    batch_size,       \* generate_embeddings_batch: the argument batch_size
    epc,              \* generate_embeddings_batch: control position
    i,                \* the loop variable of line 73
    batch,            \* the slice of line 74
    batch_embeddings, \* the list the worker builds (lines 80-83)
    all_embeddings,   \* the accumulator of line 69
    units,            \* the units handed to run_in_executor, in order
    provider_calls,   \* the calls made to genai.embed_content, in order
    progress,         \* the progress records logged at line 87
    result,           \* what the call returned, or NoResult
    error,            \* the exception that left the call, or "none"
    args,        \* main: the parsed command line
    mpc,         \* main: control position of the one-shot branch and of the exit
    nexecute,    \* main: number of execute_query calls made by the one-shot branch
    main_log,    \* main: how the one-shot connect and query ended
    exit_status, \* the exit status of the process, or NoStatus while it runs
    gtext,       \* generate_embedding: the argument text
    gpc,         \* generate_embedding: control position of the calling coroutine
    gthread,     \* generate_embedding: the thread the provider call was handed to
    gcalls,      \* generate_embedding: the provider calls made, in order
    gstarted,    \* number of generate_embedding calls started
    gresult,     \* generate_embedding: the vector returned, or NoResult
    gerror,      \* generate_embedding: the exception that left the call, or "none"
    gticks,      \* generate_embedding: other_ticks when the provider call was handed over
    other_ticks  \* steps other tasks of the event loop have taken

sessionVars == <<db_url, conn, live, opened, ncalls, prev_op, last>>
loopVars == <<pc, nread, line, ndisconnect, escaped, eof>>
embVars == <<texts, batch_size, epc, i, batch, batch_embeddings, all_embeddings,
             units, provider_calls, progress, result, error>>
mainVars == <<args, mpc, nexecute, main_log, exit_status>>
genVars == <<gtext, gpc, gthread, gcalls, gstarted, gresult, gerror, gticks, other_ticks>>

(***************************************************************************)
(* Bounds of the model.                                                    *)
(***************************************************************************)
MaxCalls == 4     \* method calls made on one instance by the API client
MaxLines == 3     \* input lines read by one run_interactive invocation
MaxDispatch == 2  \* method calls made on one instance when every SQL text is tried
MaxTexts == 4     \* length of the texts argument of generate_embeddings_batch
MaxBatch == 3     \* largest batch_size argument tried
MaxEmbedCalls == 2  \* generate_embedding calls made one after the other
MaxTicks == 2       \* steps taken by the other tasks of the event loop

None == 0

(***************************************************************************)
(* Strings are sequences of characters, so that str.strip, str.upper,      *)
(* str.lower and str.startswith are computed as Python computes them.      *)
(***************************************************************************)
Letters == <<"a", "b", "c", "e", "i", "l", "q", "s", "t", "u", "x">>
Caps == <<"A", "B", "C", "E", "I", "L", "Q", "S", "T", "U", "X">>
Whitespace == {" ", "\t"}

\* str.upper on one character
UpperChar(c) ==
    IF \E k \in DOMAIN Letters : Letters[k] = c
    THEN Caps[CHOOSE k \in DOMAIN Letters : Letters[k] = c]
    ELSE c

\* str.lower on one character
LowerChar(c) ==
    IF \E k \in DOMAIN Caps : Caps[k] = c
    THEN Letters[CHOOSE k \in DOMAIN Caps : Caps[k] = c]
    ELSE c

upper(s) == [k \in DOMAIN s |-> UpperChar(s[k])]
lower(s) == [k \in DOMAIN s |-> LowerChar(s[k])]

RECURSIVE lstrip(_)
lstrip(s) == IF s # <<>> /\ Head(s) \in Whitespace THEN lstrip(Tail(s)) ELSE s

RECURSIVE rstrip(_)
rstrip(s) ==
    IF s # <<>> /\ s[Len(s)] \in Whitespace
    THEN rstrip(SubSeq(s, 1, Len(s) - 1))
    ELSE s

strip(s) == rstrip(lstrip(s))

startswith(s, p) == Len(s) >= Len(p) /\ SubSeq(s, 1, Len(p)) = p

SELECT == <<"S", "E", "L", "E", "C", "T">>

(***************************************************************************)
(* The inputs: SQL texts and raw input lines, each a word in some letter   *)
(* case, with whitespace around it and possibly text after it.             *)
(***************************************************************************)
W_select == <<"s", "e", "l", "e", "c", "t">>
W_selec == <<"s", "e", "l", "e", "c">>
W_xselect == <<"x", "s", "e", "l", "e", "c", "t">>
W_sel_ect == <<"s", "e", "l", " ", "e", "c", "t">>
W_set == <<"s", "e", "t">>
W_exit == <<".", "e", "x", "i", "t">>
W_quit == <<".", "q", "u", "i", "t">>
W_tables == <<".", "t", "a", "b", "l", "e", "s">>

Masks == {"lower", "upper", "mixed"}
Cased(s, m) ==
    [k \in DOMAIN s |->
        IF m = "upper" \/ (m = "mixed" /\ k % 2 = 1) THEN UpperChar(s[k]) ELSE s[k]]

Pads == {<<>>, <<" ">>, <<"\t", " ">>}
RightPads == {<<>>, <<" ", "\t">>}
Tails == {<<>>, <<" ", "1">>, <<"x">>}
Bases == {W_select, W_selec, W_xselect, W_sel_ect, W_set, <<>>}

\* the SQL texts handed to execute_query
Queries == {p \o Cased(b, m) \o t \o r : p \in Pads, b \in Bases, m \in Masks, t \in Tails, r \in RightPads}

\* the SQL texts an API client passes in the session specification
SessionQueries == {W_select \o <<" ", "1">>, <<" ">> \o Cased(W_set, "upper") \o <<" ", "x">>}

\* the raw lines input() returns in run_interactive
Lines ==
    {p \o Cased(w, m) \o r :
        p \in {<<>>, <<" ">>}, w \in {W_exit, W_quit, W_tables, W_select, W_set, <<>>},
        m \in {"lower", "mixed"}, r \in {<<>>, <<" ">>}}

NoLine == <<"<none>">>

(***************************************************************************)
(* DatabaseCLI.  Each method is an operator giving the effect of one call  *)
(* in the current state: the new conn, the driver's new state, what the    *)
(* call returns and reports, the driver calls it makes, and the exception  *)
(* that leaves it.  `o` is the outcome of the driver call the method makes.*)
(***************************************************************************)
NoCall == [op |-> "none", query |-> <<>>, outcome |-> "none", ret |-> "none",
           calls |-> <<>>, report |-> "none", raised |-> "none",
           pre_conn |-> None, pre_live |-> {}]

DriverCall(c, h, arg) == [call |-> c, h |-> h, arg |-> arg]

Effect(c, lv, n, ret, calls, report, raised) ==
    [conn |-> c, live |-> lv, opened |-> n, ret |-> ret, calls |-> calls,
     report |-> report, raised |-> raised]

\* outcomes of asyncpg.connect
ConnectOutcomes == {"ok", "error"}

\* outcomes of Connection.fetch / Connection.execute on handle h: a closed
\* handle refuses every operation (asyncpg raises InterfaceError)
QueryOutcomes(h) == IF h \in live THEN {"ok_rows", "ok_empty", "error"} ELSE {"error"}

\* connect without the try/except around asyncpg.connect
connect_unguarded(o) ==
    IF db_url = ""
    THEN Effect(conn, live, opened, "false", <<>>, "url_not_set", "none")
    ELSE IF o = "ok"
         THEN Effect(opened + 1, live \cup {opened + 1}, opened + 1, "true",
                     <<DriverCall("connect", opened + 1, <<>>)>>, "connected", "none")
         ELSE Effect(conn, live, opened, "none",
                     <<DriverCall("connect", None, <<>>)>>, "none", "Exception")

connect(o) ==
    IF db_url = ""
    THEN Effect(conn, live, opened, "false", <<>>, "url_not_set", "none")
    ELSE IF o = "ok"
         THEN Effect(opened + 1, live \cup {opened + 1}, opened + 1, "true",
                     <<DriverCall("connect", opened + 1, <<>>)>>, "connected", "none")
         ELSE Effect(conn, live, opened, "false",
                     <<DriverCall("connect", None, <<>>)>>, "connection_failed", "none")

disconnect ==
    IF conn # None
    THEN Effect(conn, live \ {conn}, opened, "none",
                <<DriverCall("close", conn, <<>>)>>, "disconnected", "none")
    ELSE Effect(conn, live, opened, "none", <<>>, "none", "none")

\* the test of line 53 without the strip()
is_select_unstripped(query) == startswith(upper(query), SELECT)

\* line 53: query.strip().upper().startswith("SELECT")
is_select(query) == startswith(upper(strip(query)), SELECT)

\* execute_query closing and dropping the handle when the driver call fails
execute_query_drops(query, o) ==
    IF conn = None
    THEN Effect(conn, live, opened, "none", <<>>, "not_connected", "none")
    ELSE IF o = "error"
         THEN Effect(None, live \ {conn}, opened, "none",
                     <<DriverCall(IF is_select(query) THEN "fetch" ELSE "execute", conn, query),
                       DriverCall("close", conn, <<>>)>>,
                     "query_failed", "none")
         ELSE Effect(conn, live, opened, "none",
                     <<DriverCall(IF is_select(query) THEN "fetch" ELSE "execute", conn, query)>>,
                     IF is_select(query)
                     THEN (IF o = "ok_rows" THEN "rows" ELSE "zero_rows")
                     ELSE "executed",
                     "none")

execute_query(query, o) ==
    IF conn = None
    THEN Effect(conn, live, opened, "none", <<>>, "not_connected", "none")
    ELSE IF is_select(query)
         THEN Effect(conn, live, opened, "none", <<DriverCall("fetch", conn, query)>>,
                     CASE o = "ok_rows" -> "rows"
                       [] o = "ok_empty" -> "zero_rows"
                       [] o = "error" -> "query_failed"
                       [] OTHER -> "none",
                     CASE o = "interrupt" -> "KeyboardInterrupt"
                       [] o = "cancel" -> "CancelledError"
                       [] OTHER -> "none")
         ELSE Effect(conn, live, opened, "none", <<DriverCall("execute", conn, query)>>,
                     CASE o \in {"ok_rows", "ok_empty"} -> "executed"
                       [] o = "error" -> "query_failed"
                       [] OTHER -> "none",
                     CASE o = "interrupt" -> "KeyboardInterrupt"
                       [] o = "cancel" -> "CancelledError"
                       [] OTHER -> "none")

\* One call `op` with effect e takes place.  `last` keeps what the call did, the
\* outcome o the driver gave it (if it asked the driver anything) and the state
\* it was made in.
ApplyCall(op, query, o, e) ==
    /\ conn' = e.conn
    /\ live' = e.live
    /\ opened' = e.opened
    /\ ncalls' = ncalls + 1
    /\ prev_op' = last.op
    /\ last' = [op |-> op, query |-> query,
                outcome |-> IF e.calls = <<>> THEN "none" ELSE o,
                ret |-> e.ret, calls |-> e.calls,
                report |-> e.report, raised |-> e.raised,
                pre_conn |-> conn, pre_live |-> live]
    /\ UNCHANGED db_url

\* a call made outside main and outside the embedding service
Apply(op, query, o, e) ==
    /\ ApplyCall(op, query, o, e)
    /\ UNCHANGED embVars
    /\ UNCHANGED mainVars
    /\ UNCHANGED genVars

InitSession ==
    /\ db_url \in {"", "postgresql://neon"}
    /\ conn = None
    /\ live = {}
    /\ opened = 0
    /\ ncalls = 0
    /\ prev_op = "none"
    /\ last = NoCall

InitLoop ==
    /\ pc = "idle"
    /\ nread = 0
    /\ line = NoLine
    /\ ndisconnect = 0
    /\ escaped = "none"
    /\ eof = FALSE

(***************************************************************************)
(* An API client calling the methods of one instance in any order.         *)
(***************************************************************************)
CallConnect ==
    /\ ncalls < MaxCalls
    /\ \E o \in ConnectOutcomes : Apply("connect", <<>>, o, connect(o))
    /\ UNCHANGED loopVars

CallDisconnect ==
    /\ ncalls < MaxCalls
    /\ Apply("disconnect", <<>>, "ok", disconnect)
    /\ UNCHANGED loopVars

CallExecuteQuery ==
    /\ ncalls < MaxCalls
    /\ \E q \in SessionQueries : \E o \in QueryOutcomes(conn) :
          Apply("execute_query", q, o, execute_query(q, o))
    /\ UNCHANGED loopVars

DispatchQuery ==
    /\ ncalls < MaxDispatch
    /\ \E q \in Queries : \E o \in QueryOutcomes(conn) :
          Apply("execute_query", q, o, execute_query(q, o))
    /\ UNCHANGED loopVars

vars == <<db_url, conn, live, opened, ncalls, prev_op, last,
          pc, nread, line, ndisconnect, escaped, eof,
          texts, batch_size, epc, i, batch, batch_embeddings, all_embeddings,
          units, provider_calls, progress, result, error,
          args, mpc, nexecute, main_log, exit_status,
          gtext, gpc, gthread, gcalls, gstarted, gresult, gerror, gticks, other_ticks>>

DefaultBatchSize == 100
NoResult == <<"<no result>">>

\* no generate_embeddings_batch call has started; its arguments are given
InitEmbedding(t, b) ==
    /\ texts = t
    /\ batch_size = b
    /\ epc = "idle"
    /\ i = 0
    /\ batch = <<>>
    /\ batch_embeddings = <<>>
    /\ all_embeddings = <<>>
    /\ units = <<>>
    /\ provider_calls = <<>>
    /\ progress = <<>>
    /\ result = NoResult
    /\ error = "none"

NoQuery == <<"<no query>">>
NoStatus == -1

\* main has not started; its command line is given
InitMain(a) ==
    /\ args = a
    /\ mpc = "start"
    /\ nexecute = 0
    /\ main_log = [connected |-> "none", query |-> "none"]
    /\ exit_status = NoStatus

\* no generate_embedding call has started
InitGen ==
    /\ gtext = ""
    /\ gpc = "idle"
    /\ gthread = "none"
    /\ gcalls = <<>>
    /\ gstarted = 0
    /\ gresult = NoResult
    /\ gerror = "none"
    /\ gticks = 0
    /\ other_ticks = 0

\* python db_cli.py: neither a query nor --interactive
NoArgs == [interactive |-> FALSE, query |-> NoQuery]

Init ==
    /\ InitSession /\ InitLoop /\ InitEmbedding(<<>>, DefaultBatchSize)
    /\ InitMain(NoArgs) /\ InitGen

NextSession == CallConnect \/ CallDisconnect \/ CallExecuteQuery
SpecSession == Init /\ [][NextSession]_vars

DispatchConnect ==
    /\ ncalls < MaxDispatch
    /\ \E o \in ConnectOutcomes : Apply("connect", <<>>, o, connect(o))
    /\ UNCHANGED loopVars

NextDispatch == DispatchConnect \/ DispatchQuery
SpecDispatch == Init /\ [][NextDispatch]_vars

(***************************************************************************)
(* run_interactive.  One step per suspension point: the connect at entry,  *)
(* one loop iteration per input() call, and the disconnect of the finally  *)
(* block.                                                                  *)
(***************************************************************************)
TablesQuery == <<"information_schema.tables">>

\* lines 85-99 with the reserved tokens compared without lower()
dispatch_case_sensitive(query) ==
    IF query = <<>> THEN "continue"
    ELSE IF query \in {W_exit, W_quit} THEN "break"
    ELSE IF query = W_tables THEN "tables"
    ELSE "execute_query"

\* lines 85-99: what the loop body does with the stripped line
dispatch(query) ==
    IF query = <<>> THEN "continue"
    ELSE IF lower(query) \in {W_exit, W_quit} THEN "break"
    ELSE IF lower(query) = W_tables THEN "tables"
    ELSE "execute_query"

\* the handlers of lines 101-105 with the loop left on any exception
handler_breaks(raised) ==
    CASE raised = "none" -> "continue"
      [] raised = "KeyboardInterrupt" -> "break"
      [] raised = "Exception" -> "break"
      [] OTHER -> "propagate"

\* the handlers of lines 101-105 without the KeyboardInterrupt clause
handler_no_interrupt(raised) ==
    CASE raised = "none" -> "continue"
      [] raised = "Exception" -> "report"
      [] OTHER -> "propagate"

\* lines 101-105: what the loop does with an exception raised in its body
handler(raised) ==
    CASE raised = "none" -> "continue"
      [] raised = "KeyboardInterrupt" -> "break"
      [] raised = "Exception" -> "report"
      [] OTHER -> "propagate"

\* control after an iteration whose body raised `raised` (or broke)
AfterBody(raised, broke) ==
    /\ pc' = IF broke \/ handler(raised) \in {"break", "propagate"} THEN "finally" ELSE "loop"
    /\ escaped' = IF ~broke /\ handler(raised) = "propagate" THEN raised ELSE escaped

\* outcomes of a driver call awaited inside the loop: as QueryOutcomes, and an
\* interrupt may arrive, or the task be cancelled, while the call is awaited
LoopOutcomes(h) == QueryOutcomes(h) \cup {"interrupt", "cancel"}

\* lines 69-78: banner, connect, return if it failed
RunInteractive ==
    /\ pc = "idle"
    /\ \E o \in ConnectOutcomes :
          /\ Apply("connect", <<>>, o, connect(o))
          /\ pc' = IF connect(o).ret = "true" THEN "loop" ELSE "done"
    /\ UNCHANGED <<nread, line, ndisconnect, escaped, eof>>

\* line 83: input() is interrupted
InputInterrupt ==
    /\ pc = "loop" /\ nread < MaxLines
    /\ nread' = nread + 1
    /\ line' = NoLine
    /\ Apply("input", <<>>, "none",
             Effect(conn, live, opened, "none", <<>>, "none", "KeyboardInterrupt"))
    /\ AfterBody("KeyboardInterrupt", FALSE)
    /\ UNCHANGED <<ndisconnect, eof>>

\* line 83: input() fails: with EOFError at the end of the input, and from
\* then on at every call, or with another error (undecodable bytes)
InputError ==
    /\ pc = "loop" /\ nread < MaxLines
    /\ eof' \in {eof, TRUE}
    /\ nread' = nread + 1
    /\ line' = NoLine
    /\ Apply("input", <<>>, "none",
             Effect(conn, live, opened, "none", <<>>, "error", "Exception"))
    /\ AfterBody("Exception", FALSE)
    /\ UNCHANGED ndisconnect

\* lines 83-86: an empty line
InputEmpty ==
    /\ pc = "loop" /\ nread < MaxLines
    /\ ~eof /\ eof' = eof
    /\ \E l \in Lines :
          /\ dispatch(strip(l)) = "continue"
          /\ line' = l
          /\ Apply("input", strip(l), "none",
                   Effect(conn, live, opened, "none", <<>>, "none", "none"))
    /\ nread' = nread + 1
    /\ AfterBody("none", FALSE)
    /\ UNCHANGED ndisconnect

\* lines 88-89: .exit / .quit
InputExit ==
    /\ pc = "loop" /\ nread < MaxLines
    /\ ~eof /\ eof' = eof
    /\ \E l \in Lines :
          /\ dispatch(strip(l)) = "break"
          /\ line' = l
          /\ Apply("input", strip(l), "none",
                   Effect(conn, live, opened, "none", <<>>, "none", "none"))
    /\ nread' = nread + 1
    /\ AfterBody("none", TRUE)
    /\ UNCHANGED ndisconnect

\* lines 91-97: .tables
InputTables ==
    /\ pc = "loop" /\ nread < MaxLines
    /\ ~eof /\ eof' = eof
    /\ \E l \in Lines : \E o \in LoopOutcomes(conn) :
          LET raised == CASE o = "error" -> "Exception"
                          [] o = "interrupt" -> "KeyboardInterrupt"
                          [] o = "cancel" -> "CancelledError"
                          [] OTHER -> "none"
          IN /\ dispatch(strip(l)) = "tables"
             /\ line' = l
             /\ Apply("tables", strip(l), o,
                      Effect(conn, live, opened, "none",
                             <<DriverCall("fetch", conn, TablesQuery)>>,
                             IF raised = "none" THEN "tables"
                             ELSE IF handler(raised) = "report" THEN "error" ELSE "none",
                             raised))
             /\ AfterBody(raised, FALSE)
    /\ nread' = nread + 1
    /\ UNCHANGED ndisconnect

\* line 99: any other line goes to execute_query
InputQuery ==
    /\ pc = "loop" /\ nread < MaxLines
    /\ ~eof /\ eof' = eof
    /\ \E l \in Lines : \E o \in LoopOutcomes(conn) :
          /\ dispatch(strip(l)) = "execute_query"
          /\ line' = l
          /\ Apply("execute_query", strip(l), o, execute_query(strip(l), o))
          /\ AfterBody(execute_query(strip(l), o).raised, FALSE)
    /\ nread' = nread + 1
    /\ UNCHANGED ndisconnect

\* the loop left without a finally block
Finally_absent ==
    /\ pc = "finally"
    /\ pc' = "done"
    /\ UNCHANGED <<sessionVars, embVars, mainVars, genVars>>
    /\ UNCHANGED <<nread, line, ndisconnect, escaped, eof>>

\* lines 107-108: the finally block
Finally ==
    /\ pc = "finally"
    /\ Apply("disconnect", <<>>, "ok", disconnect)
    /\ ndisconnect' = ndisconnect + 1
    /\ pc' = "done"
    /\ UNCHANGED <<nread, line, escaped, eof>>

NextInteractive ==
    \/ RunInteractive
    \/ InputInterrupt
    \/ InputError
    \/ InputEmpty
    \/ InputExit
    \/ InputTables
    \/ InputQuery
    \/ Finally
SpecInteractive == Init /\ [][NextInteractive]_vars

\* the coroutine is resumed once the loop is left: the finally block runs
SpecInteractiveFair == SpecInteractive /\ WF_vars(Finally)

(***************************************************************************)
(* Properties of the Session Manager.                                      *)
(***************************************************************************)

\* C1: once a run_interactive invocation has terminated, by whatever exit
\* path, the instance holds no connection handle and no handle it opened is
\* still live.
RunInteractiveEndsDisconnected == pc = "done" => (conn = None /\ live = {})

\* C2: disconnect raises no error and leaves the handle closed and cleared,
\* and a disconnect that directly follows a disconnect asks nothing of the
\* driver.
DisconnectIdempotent ==
    last.op = "disconnect" =>
        /\ last.raised = "none"
        /\ conn = None
        /\ last.pre_conn \notin live
        /\ (prev_op = "disconnect" => last.calls = <<>>)

\* C3: at most one handle opened by the instance is live at any time.
AtMostOneLiveHandle == Cardinality(live) <= 1

\* C4: an execute_query made while the instance is disconnected (it never
\* connected, or the handle it holds was closed by disconnect) asks nothing
\* of the driver, reports "not connected" and changes nothing.
ExecuteQueryNoOpWhenDisconnected ==
    (last.op = "execute_query"
       /\ (last.pre_conn = None \/ last.pre_conn \notin last.pre_live)) =>
        /\ last.calls = <<>>
        /\ last.report = "not_connected"
        /\ conn = last.pre_conn
        /\ live = last.pre_live

\* The text begins, after leading whitespace, with the letters s-e-l-e-c-t in
\* any case (stated without strip, upper and startswith).
SelectPrefixed(q) ==
    \E k \in 0..Len(q) :
        /\ \A j \in 1..k : q[j] \in Whitespace
        /\ Len(q) >= k + 6
        /\ \A j \in 1..6 : q[k + j] \in {W_select[j], SELECT[j]}

\* C5: on a connected session execute_query hands the text to exactly one
\* driver call: fetch if and only if the text begins, after trimming and
\* ignoring case, with SELECT, and execute for every other text, the ones
\* that are empty after trimming included.
DispatchBySelectPrefix ==
    (last.op = "execute_query" /\ last.pre_conn \in last.pre_live) =>
        /\ Len(last.calls) = 1
        /\ last.calls[1].h = last.pre_conn
        /\ last.calls[1].arg = last.query
        /\ last.calls[1].call = IF SelectPrefixed(last.query) THEN "fetch" ELSE "execute"

\* a mixed-case SELECT behind leading whitespace went to fetch
DispatchWitness ==
    /\ last.op = "execute_query"
    /\ last.pre_conn \in last.pre_live
    /\ last.query # <<>> /\ last.query[1] \in Whitespace
    /\ last.query # upper(last.query)
    /\ last.calls[1].call = "fetch"

\* C9: no exception leaves connect.  It returns false, without asking the
\* driver, when the connection string is empty, and returns false when the
\* driver's connect raises; a connect that returns false leaves the handle
\* and the driver's handles as they were (a disconnected instance stays
\* disconnected).  It returns true exactly when the driver's connect
\* succeeded, and then holds the new live handle.
ConnectContract ==
    last.op = "connect" =>
        /\ last.raised = "none"
        /\ last.ret \in {"true", "false"}
        /\ (db_url = "" => (last.ret = "false" /\ last.calls = <<>>))
        /\ (last.ret = "true" <=> last.outcome = "ok")
        /\ (last.ret = "false" =>
               /\ conn = last.pre_conn
               /\ live = last.pre_live
               /\ (last.pre_conn = None => conn = None))
        /\ (last.ret = "true" =>
               /\ conn # None
               /\ conn \in live
               /\ conn \notin last.pre_live
               /\ last.calls = <<DriverCall("connect", conn, <<>>)>>)

\* the driver's connect raised on a disconnected instance
ConnectWitness ==
    /\ last.op = "connect"
    /\ last.outcome = "error"
    /\ last.ret = "false"
    /\ conn = None

\* C10: in run_interactive a forwarded query or a .tables introspection that
\* fails with a driver error is reported, leaves the connection held and
\* open, and leaves the loop at its next prompt.
StatementFailureKeepsSession ==
    (pc # "idle" /\ last.op \in {"execute_query", "tables"} /\ last.outcome = "error") =>
        /\ last.report \in {"query_failed", "error"}
        /\ pc = "loop"
        /\ escaped = "none"
        /\ ndisconnect = 0
        /\ conn = last.pre_conn
        /\ conn \in live

\* a .tables introspection failed and the loop is at its prompt again
StatementFailureWitness ==
    /\ pc = "loop"
    /\ last.op = "tables"
    /\ last.outcome = "error"
    /\ last.report = "error"

(***************************************************************************)
(* EmbeddingService.generate_embeddings_batch.  One step per suspension    *)
(* point of the coroutine and one per provider call of the worker.         *)
(***************************************************************************)
Texts == {"a", "b", "c"}

RECURSIVE SeqsUpTo(_, _)
SeqsUpTo(S, n) ==
    IF n = 0 THEN {<<>>}
    ELSE LET shorter == SeqsUpTo(S, n - 1)
         IN shorter \cup {Append(t, x) : t \in {u \in shorter : Len(u) = n - 1}, x \in S}

Min(a, b) == IF a <= b THEN a ELSE b

\* Python's s[lo:hi] for 0 <= lo
slice(s, lo, hi) == SubSeq(s, Min(lo, Len(s)) + 1, Min(hi, Len(s)))

\* whether range(0, len(texts), batch_size) still yields k (batch_size # 0)
in_range(k) == IF batch_size > 0 THEN k < Len(texts) ELSE k > Len(texts)

\* line 74 with the slice one text short
batch_of_short(k) == slice(texts, k, k + batch_size - 1)

\* line 74: texts[i:i + batch_size]
batch_of(k) == slice(texts, k, k + batch_size)

\* what genai.embed_content gives for a text at its n-th call
Vec(text, n) == [text |-> text, call |-> n]

InitBatch ==
    /\ InitSession /\ db_url = ""
    /\ InitLoop
    /\ \E t \in SeqsUpTo(Texts, MaxTexts) : \E b \in -1..MaxBatch : InitEmbedding(t, b)
    /\ InitMain(NoArgs) /\ InitGen

\* lines 69-73: entry; range() refuses a step of zero, which the except
\* clause of lines 92-94 logs and re-raises
BatchStart ==
    /\ epc = "idle"
    /\ all_embeddings' = <<>>
    /\ i' = 0
    /\ IF batch_size = 0
       THEN epc' = "raised" /\ error' = "ValueError"
       ELSE epc' = "loop" /\ error' = error
    /\ UNCHANGED <<texts, batch_size, batch, batch_embeddings, units, provider_calls,
                   progress, result>>
    /\ UNCHANGED <<sessionVars, loopVars, mainVars, genVars>>

\* lines 73-84: the next batch is cut and handed to the executor
DispatchBatch ==
    /\ epc = "loop"
    /\ in_range(i)
    /\ batch' = batch_of(i)
    /\ units' = Append(units, batch_of(i))
    /\ batch_embeddings' = <<>>
    /\ epc' = "executor"
    /\ UNCHANGED <<texts, batch_size, i, all_embeddings, provider_calls, progress,
                   result, error>>
    /\ UNCHANGED <<sessionVars, loopVars, mainVars, genVars>>

\* lines 80-83 with a failed provider call skipped and the batch continued
WorkerCall_continues ==
    /\ epc = "executor"
    /\ Len(batch_embeddings) < Len(batch)
    /\ LET text == batch[Len(batch_embeddings) + 1]
           n == Len(provider_calls) + 1
       IN \E o \in {"ok", "error"} :
             /\ provider_calls' = Append(provider_calls, [text |-> text, outcome |-> o])
             /\ batch_embeddings' = Append(batch_embeddings, Vec(text, n))
             /\ epc' = epc
    /\ UNCHANGED <<texts, batch_size, i, batch, all_embeddings, units, progress,
                   result, error>>
    /\ UNCHANGED <<sessionVars, loopVars, mainVars, genVars>>

\* lines 80-83: the worker calls the provider for the next text of the batch
WorkerCall ==
    /\ epc = "executor"
    /\ Len(batch_embeddings) < Len(batch)
    /\ LET text == batch[Len(batch_embeddings) + 1]
           n == Len(provider_calls) + 1
       IN \E o \in {"ok", "error"} :
             /\ provider_calls' = Append(provider_calls, [text |-> text, outcome |-> o])
             /\ IF o = "ok"
                THEN /\ batch_embeddings' = Append(batch_embeddings, Vec(text, n))
                     /\ epc' = epc
                ELSE /\ batch_embeddings' = batch_embeddings
                     /\ epc' = "worker_failed"
    /\ UNCHANGED <<texts, batch_size, i, batch, all_embeddings, units, progress,
                   result, error>>
    /\ UNCHANGED <<sessionVars, loopVars, mainVars, genVars>>

\* lines 78, 86-87 with the batch index of the progress record counted from 0
BatchDone_zero_based ==
    /\ epc = "executor"
    /\ Len(batch_embeddings) = Len(batch)
    /\ all_embeddings' = all_embeddings \o batch_embeddings
    /\ progress' = Append(progress,
                          [index |-> i \div batch_size,
                           size |-> Len(batch_embeddings),
                           of |-> (Len(texts) + batch_size - 1) \div batch_size])
    /\ i' = i + batch_size
    /\ epc' = "loop"
    /\ UNCHANGED <<texts, batch_size, batch, batch_embeddings, units, provider_calls,
                   result, error>>
    /\ UNCHANGED <<sessionVars, loopVars, mainVars, genVars>>

\* lines 78, 86-87: the await returns the worker's list
BatchDone ==
    /\ epc = "executor"
    /\ Len(batch_embeddings) = Len(batch)
    /\ all_embeddings' = all_embeddings \o batch_embeddings
    /\ progress' = Append(progress,
                          [index |-> (i \div batch_size) + 1,
                           size |-> Len(batch_embeddings),
                           of |-> (Len(texts) + batch_size - 1) \div batch_size])
    /\ i' = i + batch_size
    /\ epc' = "loop"
    /\ UNCHANGED <<texts, batch_size, batch, batch_embeddings, units, provider_calls,
                   result, error>>
    /\ UNCHANGED <<sessionVars, loopVars, mainVars, genVars>>

\* lines 92-94 with the accumulated vectors returned instead of the raise
BatchFailed_partial ==
    /\ epc = "worker_failed"
    /\ epc' = "returned"
    /\ result' = all_embeddings
    /\ UNCHANGED <<texts, batch_size, i, batch, batch_embeddings, all_embeddings,
                   units, provider_calls, progress, error>>
    /\ UNCHANGED <<sessionVars, loopVars, mainVars, genVars>>

\* lines 78, 92-94: the await raises the worker's exception; it is logged and
\* re-raised
BatchFailed ==
    /\ epc = "worker_failed"
    /\ epc' = "raised"
    /\ error' = "ProviderError"
    /\ UNCHANGED <<texts, batch_size, i, batch, batch_embeddings, all_embeddings,
                   units, provider_calls, progress, result>>
    /\ UNCHANGED <<sessionVars, loopVars, mainVars, genVars>>

\* lines 73, 89-90: the range is exhausted and the accumulator is returned
BatchReturn ==
    /\ epc = "loop"
    /\ ~in_range(i)
    /\ result' = all_embeddings
    /\ epc' = "returned"
    /\ UNCHANGED <<texts, batch_size, i, batch, batch_embeddings, all_embeddings,
                   units, provider_calls, progress, error>>
    /\ UNCHANGED <<sessionVars, loopVars, mainVars, genVars>>

NextBatch ==
    \/ BatchStart
    \/ DispatchBatch
    \/ WorkerCall
    \/ BatchDone
    \/ BatchFailed
    \/ BatchReturn
SpecBatch == InitBatch /\ [][NextBatch]_vars

(***************************************************************************)
(* Properties of generate_embeddings_batch.                                *)
(***************************************************************************)
ProviderFailed == \E k \in DOMAIN provider_calls : provider_calls[k].outcome = "error"

Ceil(n, b) == (n + b - 1) \div b

RECURSIVE Flatten(_)
Flatten(ss) == IF ss = <<>> THEN <<>> ELSE Head(ss) \o Flatten(Tail(ss))

\* C6: a call that returns gives exactly one vector per text, the k-th
\* being the one the provider produced for the k-th text.
BatchReturnsOneVectorPerText ==
    epc = "returned" =>
        /\ Len(result) = Len(texts)
        /\ \A k \in 1..Len(texts) :
              /\ k \in DOMAIN result
              /\ result[k].text = texts[k]
              /\ result[k].call \in DOMAIN provider_calls
              /\ provider_calls[result[k].call] = [text |-> texts[k], outcome |-> "ok"]

\* C7: once a provider call has failed, the call returns nothing: it ends by
\* raising the provider's error, whatever batches completed before.
BatchAllOrNothing ==
    ProviderFailed =>
        /\ epc \in {"worker_failed", "raised"}
        /\ result = NoResult
        /\ (epc = "raised" => error = "ProviderError")

\* the call raised after a batch had completed
BatchAllOrNothingWitness ==
    /\ epc = "raised"
    /\ ProviderFailed
    /\ all_embeddings # <<>>
    /\ result = NoResult

\* C8 as stated: a call with batch_size >= 1 that has ended dispatched
\* exactly ceil(N/B) units, contiguous slices of at most B texts, all but the
\* last of exactly B, which concatenated give the input.
BatchUnitsPartitionInput ==
    (batch_size >= 1 /\ epc \in {"returned", "raised"}) =>
        /\ Len(units) = Ceil(Len(texts), batch_size)
        /\ \A k \in 1..Len(units) :
              /\ Len(units[k]) \in 1..batch_size
              /\ (k < Len(units) => Len(units[k]) = batch_size)
        /\ Flatten(units) = texts

\* C8, amended: with batch_size >= 1 the k-th unit dispatched is the slice of
\* the input from text (k-1)B+1 to text min(kB, N), so it has between 1 and B
\* texts, and exactly B unless it is the last of the ceil(N/B) units; a call
\* that returns has dispatched all ceil(N/B) units, which concatenated give
\* the input, and a call that fails has dispatched only the first of them.
BatchUnitsArePartitionPrefix ==
    batch_size >= 1 =>
        /\ Len(units) <= Ceil(Len(texts), batch_size)
        /\ \A k \in 1..Len(units) :
              /\ units[k] = SubSeq(texts, (k - 1) * batch_size + 1,
                                   Min(k * batch_size, Len(texts)))
              /\ Len(units[k]) \in 1..batch_size
              /\ (k < Ceil(Len(texts), batch_size) => Len(units[k]) = batch_size)
        /\ (epc = "returned" =>
               /\ Len(units) = Ceil(Len(texts), batch_size)
               /\ Flatten(units) = texts)

\* three texts with batch_size 2 were dispatched as units of sizes 2 and 1
BatchUnitsWitness ==
    /\ epc = "returned"
    /\ Len(texts) = 3
    /\ batch_size = 2
    /\ units = <<SubSeq(texts, 1, 2), SubSeq(texts, 3, 3)>>

(***************************************************************************)
(* Further properties of the Session Manager.                              *)
(***************************************************************************)

\* C11: an invocation that connected calls disconnect exactly once, after the
\* loop is left and never while it runs, whatever ended the loop.
DisconnectOnceAfterLoop ==
    /\ pc \in {"idle", "loop", "finally"} => ndisconnect = 0
    /\ (pc = "done" /\ opened = 0) => ndisconnect = 0
    /\ (pc = "done" /\ opened > 0) =>
          /\ ndisconnect = 1
          /\ last.op = "disconnect"
          /\ last.calls = <<DriverCall("close", opened, <<>>)>>

\* an exception left the loop body and disconnect ran once
DisconnectOnceWitness ==
    /\ pc = "done"
    /\ escaped = "CancelledError"
    /\ ndisconnect = 1

\* t is l without its leading and trailing whitespace (stated without strip)
IsTrimOf(t, l) ==
    \E a \in 0..Len(l) : \E b \in a..Len(l) :
        /\ t = SubSeq(l, a + 1, b)
        /\ \A k \in 1..a : l[k] \in Whitespace
        /\ \A k \in (b + 1)..Len(l) : l[k] \in Whitespace
        /\ (t # <<>> => (t[1] \notin Whitespace /\ t[Len(t)] \notin Whitespace))

\* t is the token w in some letter case (stated without lower)
IsToken(t, w) ==
    /\ Len(t) = Len(w)
    /\ \A k \in 1..Len(w) : t[k] \in {w[k], UpperChar(w[k])}

Reserved(t) == IsToken(t, W_exit) \/ IsToken(t, W_quit) \/ IsToken(t, W_tables)

\* C13: for a line read by the loop, execute_query is called, with the
\* trimmed line, exactly when the trimmed line is not empty and is none of
\* .tables, .exit, .quit in any letter case; an empty line asks nothing of the
\* driver and the loop goes on; .exit and .quit leave the loop and ask
\* nothing of the driver; .tables makes the one introspection fetch itself.
LoopDispatch ==
    (pc \in {"loop", "finally"} /\ line # NoLine) =>
        /\ IsTrimOf(last.query, line)
        /\ (last.op = "execute_query") <=> (last.query # <<>> /\ ~Reserved(last.query))
        /\ (last.op = "execute_query") =>
              (Len(last.calls) = 1 /\ last.calls[1].arg = last.query)
        /\ (last.query = <<>>) => (last.calls = <<>> /\ pc = "loop")
        /\ (IsToken(last.query, W_exit) \/ IsToken(last.query, W_quit)) =>
              (last.calls = <<>> /\ pc = "finally")
        /\ IsToken(last.query, W_tables) =>
              (last.op = "tables" /\ last.calls = <<DriverCall("fetch", conn, TablesQuery)>>)

\* a padded .ExIt in mixed case left the loop without a driver call
LoopDispatchWitness ==
    /\ pc = "finally"
    /\ line # NoLine
    /\ line # lower(line)
    /\ line[1] \in Whitespace
    /\ IsToken(last.query, W_exit)
    /\ last.calls = <<>>

\* C16: an interrupt raised while the loop reads input or processes a line
\* leaves the loop: the next step of the invocation is the disconnect of the
\* finally block, which does run; no further line is read and no exception
\* leaves run_interactive.
InterruptEndsLoop ==
    /\ [](last.raised = "KeyboardInterrupt" =>
            (pc = "finally" /\ escaped = "none" /\ ndisconnect = 0))
    /\ [][last.raised = "KeyboardInterrupt" =>
            (/\ pc' = "done"
             /\ last'.op = "disconnect"
             /\ ndisconnect' = 1
             /\ nread' = nread
             /\ escaped' = "none")]_vars
    /\ ((last.raised = "KeyboardInterrupt") ~> (pc = "done" /\ ndisconnect = 1))

\* the interrupt arrived while a forwarded query was awaited
InterruptWitness ==
    /\ pc = "finally"
    /\ last.op = "execute_query"
    /\ last.raised = "KeyboardInterrupt"
    /\ nread > 1

\* C18: once the input is exhausted, so that every further read fails, the
\* loop has been left by the time the reads of the invocation are used up.
ExhaustedInputEndsLoop ==
    (eof /\ nread = MaxLines) => pc \in {"finally", "done"}

\* C19: execute_query leaves the handle held and the driver's handles as they
\* were, whatever the text and the outcome, and asks the driver for nothing
\* but the one fetch or execute.
ExecuteQueryKeepsConnection ==
    last.op = "execute_query" =>
        /\ conn = last.pre_conn
        /\ live = last.pre_live
        /\ Len(last.calls) <= 1
        /\ \A k \in DOMAIN last.calls : last.calls[k].call \in {"fetch", "execute"}

\* a query failed in the driver on an open handle, which is still held and open
ExecuteQueryKeepsWitness ==
    /\ last.op = "execute_query"
    /\ last.outcome = "error"
    /\ conn # None
    /\ conn \in live

(***************************************************************************)
(* main.  The command line is parsed before the first step; the branch of  *)
(* line 131 runs run_interactive, the branch of lines 134-136 makes the    *)
(* three calls of the one-shot mode.  asyncio.run (line 140) ends the      *)
(* process when main has returned or an exception has left it.             *)
(***************************************************************************)
ArgsSet ==
    {[interactive |-> b, query |-> q] :
        b \in BOOLEAN, q \in SessionQueries \cup {NoQuery, <<>>}}

\* line 131: args.interactive or not args.query
InteractiveMode == args.interactive \/ args.query \in {NoQuery, <<>>}

InitMainSpec ==
    /\ InitSession /\ InitLoop /\ InitEmbedding(<<>>, DefaultBatchSize)
    /\ \E a \in ArgsSet : InitMain(a)
    /\ InitGen

\* lines 131-132: run_interactive, step by step
MainInteractive ==
    /\ mpc = "start"
    /\ InteractiveMode
    /\ NextInteractive

\* line 134: the connect of the one-shot branch
OneShotConnect ==
    /\ mpc = "start"
    /\ ~InteractiveMode
    /\ \E o \in ConnectOutcomes :
          /\ ApplyCall("connect", <<>>, o, connect(o))
          /\ mpc' = IF connect(o).ret = "true" THEN "connected" ELSE "return"
          /\ main_log' = [main_log EXCEPT !.connected = connect(o).ret]
    /\ UNCHANGED <<args, nexecute, exit_status>>
    /\ UNCHANGED <<loopVars, embVars, genVars>>

\* line 135 with main returning when the query fails
OneShotExecute_returns ==
    /\ mpc = "connected"
    /\ \E o \in QueryOutcomes(conn) :
          /\ ApplyCall("execute_query", args.query, o, execute_query(args.query, o))
          /\ main_log' = [main_log EXCEPT !.query = IF o = "error" THEN "failed" ELSE "ok"]
          /\ mpc' = IF o = "error" THEN "return" ELSE "executed"
    /\ nexecute' = nexecute + 1
    /\ UNCHANGED <<args, exit_status>>
    /\ UNCHANGED <<loopVars, embVars, genVars>>

\* line 135: the query of the one-shot branch
OneShotExecute ==
    /\ mpc = "connected"
    /\ \E o \in QueryOutcomes(conn) :
          /\ ApplyCall("execute_query", args.query, o, execute_query(args.query, o))
          /\ main_log' = [main_log EXCEPT !.query = IF o = "error" THEN "failed" ELSE "ok"]
    /\ nexecute' = nexecute + 1
    /\ mpc' = "executed"
    /\ UNCHANGED <<args, exit_status>>
    /\ UNCHANGED <<loopVars, embVars, genVars>>

\* line 136: the disconnect of the one-shot branch
OneShotDisconnect ==
    /\ mpc = "executed"
    /\ ApplyCall("disconnect", <<>>, "ok", disconnect)
    /\ ndisconnect' = ndisconnect + 1
    /\ mpc' = "return"
    /\ UNCHANGED <<args, nexecute, main_log, exit_status>>
    /\ UNCHANGED <<pc, nread, line, escaped, eof>>
    /\ UNCHANGED <<embVars, genVars>>

\* line 140: main is over; the status is 0 unless an exception left main
MainExit ==
    /\ \/ mpc = "return"
       \/ (mpc = "start" /\ InteractiveMode /\ pc = "done")
    /\ mpc' = "exited"
    /\ exit_status' = IF escaped = "none" THEN 0 ELSE 1
    /\ UNCHANGED <<args, nexecute, main_log>>
    /\ UNCHANGED <<sessionVars, loopVars, embVars, genVars>>

NextMain ==
    \/ MainInteractive
    \/ OneShotConnect
    \/ OneShotExecute
    \/ OneShotDisconnect
    \/ MainExit
SpecMain == InitMainSpec /\ [][NextMain]_vars

\* C12: in one-shot mode the exit status is zero exactly when the connect
\* and the query both succeeded; in interactive mode no failure of a
\* connect, a query or a read makes it nonzero.
ExitStatusReflectsSuccess ==
    mpc = "exited" =>
        IF InteractiveMode
        THEN (escaped = "none" => exit_status = 0)
        ELSE (exit_status = 0) <=> (main_log.connected = "true" /\ main_log.query = "ok")

\* C20: in one-shot mode a connect that succeeded is followed by exactly one
\* execute_query and then exactly one disconnect, which closes the handle,
\* whether the query succeeded or failed in the driver; after a connect that
\* failed neither is called.
OneShotReleases ==
    ~InteractiveMode =>
        /\ nexecute <= 1
        /\ ndisconnect <= nexecute
        /\ (mpc \in {"return", "exited"} /\ main_log.connected = "true") =>
              /\ nexecute = 1
              /\ ndisconnect = 1
              /\ prev_op = "execute_query"
              /\ last.op = "disconnect"
              /\ live = {}
        /\ (main_log.connected = "false") =>
              /\ mpc \in {"return", "exited"}
              /\ nexecute = 0
              /\ ndisconnect = 0
              /\ ncalls = 1

\* the one-shot query failed in the driver and the handle was closed
OneShotReleasesWitness ==
    /\ ~InteractiveMode
    /\ mpc = "exited"
    /\ main_log.query = "failed"
    /\ ndisconnect = 1
    /\ live = {}

(***************************************************************************)
(* Further properties of generate_embeddings_batch.                        *)
(***************************************************************************)

\* the units before the n-th have all their texts embedded
Completed(n) == Len(Flatten(SubSeq(units, 1, n)))

\* C14: the batches of one call run one at a time and in input order: a unit
\* is dispatched only when every unit before it has completed and had its
\* progress record emitted, so at most one unit is in flight; there is one
\* progress record per completed batch, the k-th carrying the index k and
\* the size of the k-th unit.
BatchesSequential ==
    /\ Len(units) - Len(progress) \in {0, 1}
    /\ (Len(units) = Len(progress) + 1) <=> (epc \in {"executor", "worker_failed"}
                                              \/ (epc = "raised" /\ ProviderFailed))
    /\ Len(all_embeddings) = Completed(Len(progress))
    /\ \A k \in DOMAIN progress :
          /\ progress[k].index = k
          /\ progress[k].size = Len(units[k])
    /\ \A k \in DOMAIN units :
          units[k] = SubSeq(texts, Completed(k - 1) + 1, Completed(k))

\* the second unit is in flight after the progress record of the first
BatchesSequentialWitness ==
    /\ epc = "executor"
    /\ Len(units) = 2
    /\ progress = <<[index |-> 1, size |-> 2, of |-> 2]>>
    /\ Len(all_embeddings) = 2

\* C15: the first provider call that fails is the last provider call of the
\* generate_embeddings_batch call: the text is not tried again, the rest of
\* the batch and the later batches are not processed, and no progress record
\* is emitted for the failing batch or after it.
FailureAborts ==
    /\ \A k \in DOMAIN provider_calls :
          provider_calls[k].outcome = "error" => k = Len(provider_calls)
    /\ ProviderFailed =>
          /\ epc \in {"worker_failed", "raised"}
          /\ Len(progress) = Len(units) - 1
          /\ Len(provider_calls) = Completed(Len(units) - 1) + Len(batch_embeddings) + 1
          /\ batch = units[Len(units)]

\* the second call of a batch failed, its third text is never tried and a
\* later batch is never dispatched
FailureAbortsWitness ==
    /\ epc = "raised"
    /\ ProviderFailed
    /\ Len(batch_embeddings) + 1 < Len(batch)
    /\ Completed(Len(units)) < Len(texts)
    /\ Len(batch_embeddings) = 1

(***************************************************************************)
(* EmbeddingService.generate_embedding, called by one coroutine of an      *)
(* event loop that also runs other tasks.  The event loop thread runs one  *)
(* coroutine step at a time; a blocking call made on it keeps every task   *)
(* from running until it returns.                                          *)
(***************************************************************************)

\* the provider call of the current generate_embedding call is not made yet
InFlight == gpc = "awaiting" /\ Len(gcalls) < gstarted

\* the event loop thread is inside the blocking provider call
LoopBlocked == InFlight /\ gthread = "loop"

\* lines 39-45 with embed_content called in the coroutine itself
GenCall_sync ==
    /\ gpc \in {"idle", "returned", "raised"}
    /\ gstarted < MaxEmbedCalls
    /\ \E t \in Texts : gtext' = t
    /\ gstarted' = gstarted + 1
    /\ gthread' = "loop"
    /\ gticks' = other_ticks
    /\ gpc' = "awaiting"
    /\ gresult' = NoResult
    /\ gerror' = "none"
    /\ UNCHANGED <<gcalls, other_ticks>>
    /\ UNCHANGED <<sessionVars, loopVars, embVars, mainVars>>

\* lines 39-45: the lambda is handed to the default executor and awaited
GenCall ==
    /\ gpc \in {"idle", "returned", "raised"}
    /\ gstarted < MaxEmbedCalls
    /\ \E t \in Texts : gtext' = t
    /\ gstarted' = gstarted + 1
    /\ gthread' = "worker"
    /\ gticks' = other_ticks
    /\ gpc' = "awaiting"
    /\ gresult' = NoResult
    /\ gerror' = "none"
    /\ UNCHANGED <<gcalls, other_ticks>>
    /\ UNCHANGED <<sessionVars, loopVars, embVars, mainVars>>

\* line 44: the lambda runs genai.embed_content on the thread it was handed to
WorkerEmbed ==
    /\ InFlight
    /\ \E o \in {"ok", "error"} :
          gcalls' = Append(gcalls, [text |-> gtext, thread |-> gthread, outcome |-> o,
                                    caller |-> gpc])
    /\ UNCHANGED <<gtext, gpc, gthread, gstarted, gresult, gerror, gticks, other_ticks>>
    /\ UNCHANGED <<sessionVars, loopVars, embVars, mainVars>>

\* lines 42, 46, 48-50: the await ends; the vector is returned, or the error
\* is logged and re-raised
GenResume ==
    /\ gpc = "awaiting"
    /\ Len(gcalls) = gstarted
    /\ IF gcalls[Len(gcalls)].outcome = "ok"
       THEN /\ gpc' = "returned"
            /\ gresult' = <<Vec(gtext, Len(gcalls))>>
            /\ gerror' = "none"
       ELSE /\ gpc' = "raised"
            /\ gresult' = NoResult
            /\ gerror' = "ProviderError"
    /\ gthread' = "none"
    /\ UNCHANGED <<gtext, gcalls, gstarted, gticks, other_ticks>>
    /\ UNCHANGED <<sessionVars, loopVars, embVars, mainVars>>

\* another task of the event loop takes a step
OtherTask ==
    /\ ~LoopBlocked
    /\ other_ticks < MaxTicks
    /\ other_ticks' = other_ticks + 1
    /\ UNCHANGED <<gtext, gpc, gthread, gcalls, gstarted, gresult, gerror, gticks>>
    /\ UNCHANGED <<sessionVars, loopVars, embVars, mainVars>>

NextEmbedding == GenCall \/ WorkerEmbed \/ GenResume \/ OtherTask
SpecEmbedding == Init /\ [][NextEmbedding]_vars

\* C17: every provider call of generate_embedding runs on a worker thread
\* while the calling coroutine is suspended at the await, and other tasks
\* can take steps while it is in flight; each generate_embedding call makes
\* exactly one provider call, and ends by raising the provider's error when
\* that call failed, by returning the vector otherwise.
EmbeddingOffloaded ==
    /\ \A k \in DOMAIN gcalls :
          gcalls[k].thread = "worker" /\ gcalls[k].caller = "awaiting"
    /\ InFlight => (gthread = "worker" /\ (other_ticks < MaxTicks => ENABLED OtherTask))
    /\ Len(gcalls) = IF InFlight THEN gstarted - 1 ELSE gstarted
    /\ gpc = "returned" =>
          /\ gcalls[Len(gcalls)] = [text |-> gtext, thread |-> "worker", outcome |-> "ok",
                                    caller |-> "awaiting"]
          /\ gresult = <<Vec(gtext, Len(gcalls))>>
          /\ gerror = "none"
    /\ gpc = "raised" =>
          /\ gcalls[Len(gcalls)].outcome = "error"
          /\ gcalls[Len(gcalls)].text = gtext
          /\ gresult = NoResult
          /\ gerror = "ProviderError"

\* another task took a step while the provider call was in flight
EmbeddingOffloadedWitness ==
    /\ InFlight
    /\ gthread = "worker"
    /\ other_ticks > gticks

====
